---- MODULE Spec2Model ----
(***************************************************************************)
(* State-machine model of snoo_buttons: the command queue, the session     *)
(* provider get_pubnub() and the worker() loop of snoo_buttons/snoo.py,    *)
(* with the button callbacks wired in main.py.                             *)
(*                                                                         *)
(* The worker is one asyncio task; its position pc is the await it is      *)
(* suspended at.  Code between two awaits runs as one action.  Button      *)
(* callbacks and pubnub listeners are separate atomic actions.             *)
(*                                                                         *)
(* Python's Optional values are sequences of length <= 1: None is <<>>,    *)
(* a value x is <<x>>.                                                     *)
(***************************************************************************)
EXTENDS Integers, Sequences, FiniteSets, TLC

VARIABLES
    queue,                  \* snoo.py:180  asyncio.Queue(maxsize=10)
    pc,                     \* the await worker() is suspended at
    exc,                    \* the exception propagating out of worker(), "None" if none
    command,                \* worker local: the dequeued command
    last_activity_status,   \* worker local: Optional snapshot
    messages,               \* messages published for the dequeued command so far
    applied,                \* commands the worker has dequeued, counted up to MaxApplied
    tokenFile,              \* content of TOKEN_FILE: Optional token
    token,                  \* get_pubnub local: the token loaded by _get_token()
    force_auth,             \* get_pubnub local
    auth,                   \* SnooAuthSession: [token |-> Optional token]
    current_count,          \* _get_devices_retry local
    devices,                \* _get_devices_retry local: number of devices of the last attempt
    baby,                   \* get_pubnub local: Optional baby.settings.weaning
    pubnub,                 \* Optional [started, access_token]
    listeners,              \* listeners registered on pubnub
    MAP_LEVEL_TO_INT,       \* snoo.py:94   module-level table
    MAP_INT_TO_LEVEL,       \* snoo.py:101  module-level table
    led,                    \* LOCK_LED state
    callback_result,        \* how the last button or listener callback ended: "None" (none ran), "ok", or the exception raised
    failed,                 \* a command application failed on the current session
    now,                    \* wall clock
    HOLD_ON_START,          \* constants.py:39
    MAX_SESSION_LEVEL,      \* constants.py:40  Optional int
    FORCE_LOCK              \* constants.py:41

vars == <<queue, pc, exc, command, last_activity_status, messages, applied, tokenFile,
          token, force_auth, auth, current_count, devices, baby, pubnub, listeners,
          MAP_LEVEL_TO_INT, MAP_INT_TO_LEVEL, led, callback_result, failed, now,
          HOLD_ON_START, MAX_SESSION_LEVEL, FORCE_LOCK>>

config == <<HOLD_ON_START, MAX_SESSION_LEVEL, FORCE_LOCK>>
maps == <<MAP_LEVEL_TO_INT, MAP_INT_TO_LEVEL>>
acqLocals == <<token, force_auth, current_count, devices, baby>>
cmdLocals == <<command, last_activity_status, messages, applied>>

-----------------------------------------------------------------------------
(* Program constants *)

QUEUE_MAXSIZE == 10
retry_count == 3

(* Bounds of the model *)

MaxNow == 2             \* the clock runs from 1 to MaxNow
TokenLifetime == 1      \* a fetched token expires TokenLifetime ticks later
MaxApplied == 3         \* applied stops counting at MaxApplied: that many or more

None == <<>>
Some(x) == <<x>>

Commands == {"lock", "up_level", "down_level", "toggle", "set_to_max", "set_lock"}

SessionLevel == {"ONLINE", "BASELINE", "WEANING_BASELINE", "LEVEL1", "LEVEL2",
                 "LEVEL3", "LEVEL4", "NONE", "PRETIMEOUT", "TIMEOUT"}

is_active_level(level) ==
    level \in {"BASELINE", "WEANING_BASELINE", "LEVEL1", "LEVEL2", "LEVEL3", "LEVEL4"}

-----------------------------------------------------------------------------
(* Activity snapshots.  The transitions are reported by the device; they    *)
(* follow the state as in tests/fakes.py generate_state_machine.            *)

UpOf(state) ==
    CASE state = "BASELINE" -> "LEVEL1"
      [] state = "WEANING_BASELINE" -> "LEVEL1"
      [] state = "LEVEL1" -> "LEVEL2"
      [] state = "LEVEL2" -> "LEVEL3"
      [] state = "LEVEL3" -> "LEVEL4"
      [] OTHER -> "NONE"

DownOf(state) ==
    CASE state = "BASELINE" -> "ONLINE"
      [] state = "WEANING_BASELINE" -> "ONLINE"
      [] state = "LEVEL1" -> "BASELINE"
      [] state = "LEVEL2" -> "LEVEL1"
      [] state = "LEVEL3" -> "LEVEL2"
      [] state = "LEVEL4" -> "LEVEL3"
      [] OTHER -> "NONE"

generate_state_machine(state, hold) ==
    [state |-> state, hold |-> hold,
     up_transition |-> UpOf(state), down_transition |-> DownOf(state)]

get_lock_status(s) == s.hold

-----------------------------------------------------------------------------
(* Messages, as FakePubnub builds them *)

publish_start == [command |-> "start_snoo", state |-> "-", hold |-> "-"]

publish_goto_state(level, hold) ==
    [command |-> "go_to_state", state |-> level,
     hold |-> IF hold = None THEN "-" ELSE IF hold[1] THEN "on" ELSE "off"]

-----------------------------------------------------------------------------
(* The command functions.  Each is the list of messages it publishes, in    *)
(* order, the LED value it sets after the last publish (Optional), and      *)
(* whether it raises before publishing anything.                            *)

Outcome(msgs, setled, raises) == [msgs |-> msgs, led |-> setled, raises |-> raises]

\* toggle publishing the hold request before the start
toggle_HoldFirst(s) ==
    IF s.state = "ONLINE"
    THEN Outcome((IF HOLD_ON_START
                  THEN <<publish_goto_state("BASELINE", Some(TRUE))>>
                  ELSE <<>>) \o <<publish_start>>,
                 Some(HOLD_ON_START), FALSE)
    ELSE Outcome(<<publish_goto_state("ONLINE", None)>>, Some(FALSE), FALSE)

toggle(s) ==
    IF s.state = "ONLINE"
    THEN Outcome(<<publish_start>> \o
                   (IF HOLD_ON_START
                    THEN <<publish_goto_state("BASELINE", Some(TRUE))>>
                    ELSE <<>>),
                 Some(HOLD_ON_START), FALSE)
    ELSE Outcome(<<publish_goto_state("ONLINE", None)>>, Some(FALSE), FALSE)

up_level(s) ==
    IF ~is_active_level(s.up_transition)
    THEN Outcome(<<>>, None, FALSE)
    ELSE Outcome(<<publish_goto_state(s.up_transition, None)>>,
                 Some(get_lock_status(s)), FALSE)

down_level(s) ==
    Outcome(<<publish_goto_state(s.down_transition, None)>>,
            Some(get_lock_status(s)), FALSE)

\* lock requesting the hold the snapshot already has
lock_SameHold(s) ==
    Outcome(<<publish_goto_state(s.state, Some(get_lock_status(s)))>>,
            Some(get_lock_status(s)), FALSE)

lock(s) ==
    Outcome(<<publish_goto_state(s.state, Some(~get_lock_status(s)))>>,
            Some(~get_lock_status(s)), FALSE)

_set_max_level_and_lock(s) ==
    IF MAX_SESSION_LEVEL = None \/ MAX_SESSION_LEVEL[1] \notin DOMAIN MAP_INT_TO_LEVEL
    THEN Outcome(<<>>, None, TRUE)
    ELSE Outcome(<<publish_goto_state(MAP_INT_TO_LEVEL[MAX_SESSION_LEVEL[1]],
                                      Some(FORCE_LOCK))>>, None, FALSE)

_set_lock(s) ==
    Outcome(<<publish_goto_state(s.state, Some(TRUE))>>, None, FALSE)

dispatch(c, s) ==
    CASE c = "lock" -> lock(s)
      [] c = "down_level" -> down_level(s)
      [] c = "up_level" -> up_level(s)
      [] c = "toggle" -> toggle(s)
      [] c = "set_to_max" -> _set_max_level_and_lock(s)
      [] c = "set_lock" -> _set_lock(s)

-----------------------------------------------------------------------------
(* Tokens *)

Token(expires_at) == [expires_at |-> expires_at]

\* _authorized trusting any persisted token, whatever its expiry
_authorized_Trusting(t) == t # None

\* expires_at: 0 is a missing or falsy value, -1 a value fromtimestamp() rejects
_authorized(t) ==
    /\ t # None
    /\ t[1].expires_at # 0
    /\ t[1].expires_at # -1
    /\ t[1].expires_at > now

_get_token == tokenFile

authorized(a) == a.token # None

get_history(history) == IF history # <<>> THEN Some(history[1]) ELSE None

-----------------------------------------------------------------------------
(* Initial state: module import (constants.py, snoo.py) and main.py *)

InitTokens == {None} \cup {Some(Token(e)) : e \in -1..(MaxNow + 1)}

Configs ==
    { [HOLD_ON_START |-> TRUE,  MAX_SESSION_LEVEL |-> None,    FORCE_LOCK |-> TRUE],
      [HOLD_ON_START |-> FALSE, MAX_SESSION_LEVEL |-> Some(1), FORCE_LOCK |-> FALSE] }

InitWith(tokens, configs) ==
    /\ queue = <<>>
    /\ pc = "connecting"
    /\ exc = "None"
    /\ command = "None"
    /\ last_activity_status = None
    /\ messages = <<>>
    /\ tokenFile \in tokens
    /\ token = None
    /\ force_auth = FALSE
    /\ auth = [token |-> None]
    /\ current_count = 0
    /\ devices = 0
    /\ baby = None
    /\ pubnub = None
    /\ listeners = {}
    /\ MAP_LEVEL_TO_INT = [l \in {"BASELINE", "LEVEL1", "LEVEL2", "LEVEL3", "LEVEL4"} |->
                             CASE l = "BASELINE" -> 0
                               [] l = "LEVEL1" -> 1
                               [] l = "LEVEL2" -> 2
                               [] l = "LEVEL3" -> 3
                               [] l = "LEVEL4" -> 4]
    /\ MAP_INT_TO_LEVEL = [i \in 0..4 |->
                             CASE i = 0 -> "BASELINE"
                               [] i = 1 -> "LEVEL1"
                               [] i = 2 -> "LEVEL2"
                               [] i = 3 -> "LEVEL3"
                               [] i = 4 -> "LEVEL4"]
    /\ led = FALSE
    /\ callback_result = "None"
    /\ failed = FALSE
    /\ now = 1
    /\ \E c \in configs :
          /\ HOLD_ON_START = c.HOLD_ON_START
          /\ MAX_SESSION_LEVEL = c.MAX_SESSION_LEVEL
          /\ FORCE_LOCK = c.FORCE_LOCK

-----------------------------------------------------------------------------
(* Producers: queue.put_nowait from a callback *)

put_nowait(c) ==
    IF Len(queue) >= QUEUE_MAXSIZE
    THEN /\ callback_result' = "QueueFull"
         /\ UNCHANGED queue
    ELSE /\ queue' = Append(queue, c)
         /\ callback_result' = "ok"

\* main.py:44-47  the when_pressed hook of a button
push_queue_command_callable(c) ==
    /\ put_nowait(c)
    /\ UNCHANGED <<pc, exc, cmdLocals, tokenFile, acqLocals, auth, pubnub, listeners,
                   maps, led, failed, now, config>>

Delivering(name) ==
    /\ pubnub # None
    /\ pubnub[1].started
    /\ name \in listeners

listener_set_level_back_to_max(s) ==
    /\ Delivering("listener_set_level_back_to_max")
    /\ IF MAX_SESSION_LEVEL # None /\ is_active_level(s.state)
       THEN IF s.state \notin DOMAIN MAP_LEVEL_TO_INT
            THEN callback_result' = "KeyError" /\ UNCHANGED queue
            ELSE IF MAP_LEVEL_TO_INT[s.state] > MAX_SESSION_LEVEL[1]
                 THEN put_nowait("set_to_max")
                 ELSE callback_result' = "ok" /\ UNCHANGED queue
       ELSE callback_result' = "ok" /\ UNCHANGED queue
    /\ UNCHANGED <<pc, exc, cmdLocals, tokenFile, acqLocals, auth, pubnub, listeners,
                   maps, led, failed, now, config>>

\* the lock listener publishing the hold itself instead of enqueuing set_lock
listener_set_lock_if_not_on_Publishing(s) ==
    /\ Delivering("listener_set_lock_if_not_on")
    /\ IF is_active_level(s.state) /\ ~get_lock_status(s)
       THEN messages' = Append(messages, publish_goto_state(s.state, Some(TRUE)))
       ELSE UNCHANGED messages
    /\ callback_result' = "ok"
    /\ UNCHANGED <<queue, pc, exc, command, last_activity_status, applied, tokenFile,
                   acqLocals, auth, pubnub, listeners, maps, led, failed, now, config>>

listener_set_lock_if_not_on(s) ==
    /\ Delivering("listener_set_lock_if_not_on")
    /\ IF is_active_level(s.state) /\ ~get_lock_status(s)
       THEN put_nowait("set_lock")
       ELSE callback_result' = "ok" /\ UNCHANGED queue
    /\ UNCHANGED <<pc, exc, cmdLocals, tokenFile, acqLocals, auth, pubnub, listeners,
                   maps, led, failed, now, config>>

listener_update_lock_led(s) ==
    /\ Delivering("listener_update_lock_led")
    /\ led' = IF s.hold THEN TRUE ELSE led
    /\ callback_result' = "ok"
    /\ UNCHANGED <<queue, pc, exc, cmdLocals, tokenFile, acqLocals, auth, pubnub,
                   listeners, maps, failed, now, config>>

Tick ==
    /\ now < MaxNow
    /\ now' = now + 1
    /\ UNCHANGED <<queue, pc, exc, cmdLocals, tokenFile, acqLocals, auth, pubnub,
                   listeners, maps, led, callback_result, failed, config>>

-----------------------------------------------------------------------------
(* get_pubnub(): session acquisition, entered by worker()'s async with *)

\* an exception raised before the session is opened leaves worker()
Raise(e) ==
    /\ pc' = "terminated"
    /\ exc' = e

\* snoo.py:127-134  up to the first await
Connect ==
    /\ pc = "connecting"
    /\ token' = _get_token
    /\ auth' = [token |-> token']
    /\ current_count' = 0
    /\ devices' = 0
    /\ IF ~_authorized(token')
       THEN IF tokenFile = None
            THEN \* os.remove of a file that does not exist
                 /\ Raise("FileNotFoundError")
                 /\ force_auth' = FALSE
                 /\ UNCHANGED tokenFile
            ELSE /\ tokenFile' = None
                 /\ force_auth' = TRUE
                 /\ pc' = "fetch_token"
                 /\ UNCHANGED exc
       ELSE /\ force_auth' = FALSE
            /\ pc' = IF ~authorized(auth') THEN "fetch_token" ELSE "get_devices"
            /\ UNCHANGED <<tokenFile, exc>>
    /\ UNCHANGED <<queue, cmdLocals, baby, pubnub, listeners, maps, led,
                   callback_result, failed, now, config>>

\* snoo.py:137-138  auth.fetch_token returns; _token_updater persists the token
FetchTokenReturn ==
    /\ pc = "fetch_token"
    /\ LET new_token == Some(Token(now + TokenLifetime)) IN
          /\ auth' = [token |-> new_token]
          /\ tokenFile' = new_token
    /\ pc' = "get_devices"
    /\ UNCHANGED <<queue, exc, cmdLocals, acqLocals, pubnub, listeners, maps, led,
                   callback_result, failed, now, config>>

\* snoo.py:137  _get_credentials or auth.fetch_token raises
FetchTokenRaises ==
    /\ pc = "fetch_token"
    /\ Raise("AuthError")
    /\ UNCHANGED <<queue, cmdLocals, tokenFile, acqLocals, auth, pubnub, listeners,
                   maps, led, callback_result, failed, now, config>>

\* snoo.py:72-77, 143-145  one snoo.get_devices() attempt returns n devices
GetDevicesReturn(n) ==
    /\ pc = "get_devices"
    /\ devices' = n
    /\ current_count' = current_count + 1
    /\ IF current_count' < retry_count
       THEN UNCHANGED <<pc, exc>>
       ELSE IF devices' = 0
            THEN Raise("NoDevicesException")
            ELSE pc' = "get_baby" /\ UNCHANGED exc
    /\ UNCHANGED <<queue, cmdLocals, tokenFile, token, force_auth, auth, baby, pubnub,
                   listeners, maps, led, callback_result, failed, now, config>>

\* snoo.py:73-76  snoo.get_devices() raises: finally counts, the error propagates
GetDevicesRaises ==
    /\ pc = "get_devices"
    /\ current_count' = current_count + 1
    /\ Raise("DevicesError")
    /\ UNCHANGED <<queue, cmdLocals, tokenFile, token, force_auth, auth, devices,
                   baby, pubnub, listeners, maps, led, callback_result, failed, now,
                   config>>

-----------------------------------------------------------------------------
(* worker(): the body of the async with *)

\* worker() with the command function started but not awaited
AwaitingSleep_NotAwaited == pc \in {"sleep", "publish"}

AwaitingSleep == pc = "sleep"

\* snoo.py:308-312, 328  one pass of the inner loop up to its await
\* the inner loop reading the head of the queue without removing it
LoopBody_Peek ==
    IF Len(queue) > 0
    THEN /\ command' = Head(queue)
         /\ queue' = queue
         /\ last_activity_status' = None
         /\ messages' = <<>>
         /\ applied' = IF applied < MaxApplied THEN applied + 1 ELSE applied
         /\ pc' = "history"
    ELSE /\ pc' = "sleep"
         /\ UNCHANGED <<queue, cmdLocals>>

LoopBody ==
    IF Len(queue) > 0
    THEN /\ command' = Head(queue)
         /\ queue' = Tail(queue)
         /\ last_activity_status' = None
         /\ messages' = <<>>
         /\ applied' = IF applied < MaxApplied THEN applied + 1 ELSE applied
         /\ pc' = "history"
    ELSE /\ pc' = "sleep"
         /\ UNCHANGED <<queue, cmdLocals>>

\* get_pubnub() without the try/finally around its yield
Unwind_NoFinally(e) ==
    /\ pc' = "terminated"
    /\ exc' = e

\* snoo.py:161-164  an exception leaves the body: finally awaits pubnub.stop()
Unwind(e) ==
    /\ pc' = "stop"
    /\ exc' = e

\* snoo.py:330-337, 163-164  leave the inner loop: unsubscribe, leave the scope
Drain ==
    /\ listeners' = {}
    /\ pc' = "stop"
    /\ UNCHANGED exc

\* the failure branches without their break: the loop goes on to its sleep
Requeue_NoBreak ==
    IF Len(queue) >= QUEUE_MAXSIZE
    THEN /\ pc' = "stop"
         /\ exc' = "QueueFull"
         /\ UNCHANGED <<queue, listeners>>
    ELSE /\ queue' = Append(queue, command)
         /\ pc' = "sleep"
         /\ UNCHANGED <<exc, listeners>>

\* snoo.py:317-318, 325-326  queue.put_nowait(command); break
Requeue ==
    IF Len(queue) >= QUEUE_MAXSIZE
    THEN /\ Unwind("QueueFull")
         /\ UNCHANGED <<queue, listeners>>
    ELSE /\ queue' = Append(queue, command)
         /\ Drain

RegisteredListeners ==
    {"listener_update_lock_led"}
      \cup (IF FORCE_LOCK THEN {"listener_set_lock_if_not_on"} ELSE {})
      \cup (IF MAX_SESSION_LEVEL # None THEN {"listener_set_level_back_to_max"} ELSE {})

\* snoo.py:148-152  the weaning remap of the module-level tables
Remap(weaning) ==
    IF weaning
    THEN /\ MAP_LEVEL_TO_INT' =
              [l \in (DOMAIN MAP_LEVEL_TO_INT \cup {"WEANING_BASELINE"}) \ {"BASELINE"} |->
                  IF l = "WEANING_BASELINE" THEN 0 ELSE MAP_LEVEL_TO_INT[l]]
         /\ MAP_INT_TO_LEVEL' = [MAP_INT_TO_LEVEL EXCEPT ![0] = "WEANING_BASELINE"]
    ELSE UNCHANGED maps

\* snoo.py:147-159, 289-312  get_baby returns: open the session, enter the loop
GetBabyReturn(weaning) ==
    /\ pc = "get_baby"
    /\ baby' = Some(weaning)
    /\ Remap(weaning)
    /\ pubnub' = Some([started |-> TRUE, access_token |-> auth.token])
    /\ listeners' = RegisteredListeners
    /\ failed' = FALSE
    /\ LoopBody
    /\ UNCHANGED <<exc, tokenFile, token, force_auth, current_count, devices, auth,
                   led, callback_result, now, config>>

\* snoo.py:147  snoo.get_baby() raises
GetBabyRaises ==
    /\ pc = "get_baby"
    /\ Raise("BabyError")
    /\ UNCHANGED <<queue, cmdLocals, tokenFile, acqLocals, auth, pubnub, listeners,
                   maps, led, callback_result, failed, now, config>>

\* snoo.py:328, 307  asyncio.sleep returns; expired: the 20 minutes are over
SleepReturn(expired) ==
    /\ AwaitingSleep
    /\ IF expired
       THEN Drain /\ UNCHANGED <<queue, cmdLocals>>
       ELSE LoopBody /\ UNCHANGED <<exc, listeners>>
    /\ UNCHANGED <<tokenFile, acqLocals, auth, pubnub, maps, led, callback_result,
                   failed, now, config>>

\* the command function returned: set_led, then the loop's sleep
FuncDone(o) ==
    /\ led' = IF o.led = None THEN led ELSE o.led[1]
    /\ pc' = "sleep"

\* snoo.py:312  pubnub.history() raises inside get_history: nothing catches it
HistoryRaises ==
    /\ pc = "history"
    /\ failed' = TRUE
    /\ Unwind("HistoryError")
    /\ UNCHANGED <<queue, cmdLocals, tokenFile, acqLocals, auth, pubnub, listeners,
                   maps, led, callback_result, now, config>>

\* snoo.py:312-322  pubnub.history() returns the list history
HistoryReturn(history) ==
    /\ pc = "history"
    /\ last_activity_status' = get_history(history)
    /\ IF last_activity_status' = None
       THEN /\ failed' = TRUE
            /\ Requeue
            /\ UNCHANGED led
       ELSE LET o == dispatch(command, last_activity_status'[1]) IN
            IF o.raises
            THEN /\ failed' = TRUE
                 /\ Requeue
                 /\ UNCHANGED led
            ELSE /\ IF o.msgs = <<>>
                    THEN FuncDone(o)
                    ELSE pc' = "publish" /\ UNCHANGED led
                 /\ UNCHANGED <<queue, exc, listeners, failed>>
    /\ UNCHANGED <<command, messages, applied, tokenFile, acqLocals, auth, pubnub,
                   maps, callback_result, now, config>>

\* snoo.py:322  the pending pubnub.publish returns
PublishReturn ==
    /\ pc = "publish"
    /\ LET o == dispatch(command, last_activity_status[1]) IN
          /\ messages' = Append(messages, o.msgs[Len(messages) + 1])
          /\ IF Len(messages') < Len(o.msgs)
             THEN UNCHANGED <<pc, led>>
             ELSE FuncDone(o)
    /\ UNCHANGED <<queue, exc, command, last_activity_status, applied, tokenFile,
                   acqLocals, auth, pubnub, listeners, maps, callback_result, failed,
                   now, config>>

\* snoo.py:323-326  the pending pubnub.publish raises
PublishRaises ==
    /\ pc = "publish"
    /\ failed' = TRUE
    /\ Requeue
    /\ UNCHANGED <<cmdLocals, tokenFile, acqLocals, auth, pubnub, maps, led,
                   callback_result, now, config>>

\* snoo.py:164, 129  pubnub.stop() returns; the scope and the auth session are left
StopReturn ==
    /\ pc = "stop"
    /\ pubnub' = Some([pubnub[1] EXCEPT !.started = FALSE])
    /\ pc' = IF exc # "None" THEN "terminated" ELSE "connecting"
    /\ command' = "None"
    /\ last_activity_status' = None
    /\ messages' = <<>>
    /\ token' = None
    /\ force_auth' = FALSE
    /\ auth' = [token |-> None]
    /\ current_count' = 0
    /\ devices' = 0
    /\ baby' = None
    /\ UNCHANGED <<queue, exc, applied, tokenFile, listeners, maps, led,
                   callback_result, failed, now, config>>

-----------------------------------------------------------------------------
(* Spec: the worker and its queue.  The user keeps pressing one button and  *)
(* the device keeps pushing activity, so the queue fills to its capacity;   *)
(* the persisted token is valid and the clock stands still.                 *)

Buttons == {"up_level", "down_level", "lock", "toggle"}

PressedButtons == {"toggle"}

Snapshots == {generate_state_machine(l, h) : l \in SessionLevel, h \in BOOLEAN}

WorkerSnapshots ==
    {generate_state_machine("ONLINE", FALSE),
     generate_state_machine("LEVEL1", TRUE),
     generate_state_machine("LEVEL4", FALSE)}

Init == InitWith({Some(Token(MaxNow + 1))}, Configs) /\ applied = MaxApplied

Next ==
    \/ \E c \in PressedButtons : push_queue_command_callable(c)
    \/ \E s \in WorkerSnapshots : listener_set_level_back_to_max(s)
    \/ \E s \in WorkerSnapshots : listener_set_lock_if_not_on(s)
    \/ \E s \in WorkerSnapshots : listener_update_lock_led(s)
    \/ Connect
    \/ \E n \in {0, 1} : GetDevicesReturn(n)
    \/ GetDevicesRaises
    \/ GetBabyReturn(FALSE)
    \/ GetBabyRaises
    \/ \E e \in BOOLEAN : SleepReturn(e)
    \/ HistoryRaises
    \/ \E h \in {<<>>} \cup {<<s>> : s \in WorkerSnapshots} : HistoryReturn(h)
    \/ PublishReturn
    \/ PublishRaises
    \/ StopReturn

Spec == Init /\ [][Next]_vars

-----------------------------------------------------------------------------
(* SpecAcq: session acquisition.  No button is pressed and no activity is   *)
(* pushed; the persisted token is anything and the clock advances.          *)

InitAcq == InitWith(InitTokens, Configs) /\ applied = 0

NextAcq ==
    \/ Tick
    \/ Connect
    \/ FetchTokenReturn
    \/ FetchTokenRaises
    \/ \E n \in {0, 1} : GetDevicesReturn(n)
    \/ GetDevicesRaises
    \/ \E w \in BOOLEAN : GetBabyReturn(w)
    \/ GetBabyRaises
    \/ \E e \in BOOLEAN : SleepReturn(e)
    \/ StopReturn

SpecAcq == InitAcq /\ [][NextAcq]_vars

-----------------------------------------------------------------------------
(* SpecRetry: one command.  A button is pressed once, before the worker has *)
(* dequeued anything, and no activity is pushed; fetches and publishes may  *)
(* fail every time.                                                         *)

PressOnce(c) ==
    /\ applied = 0
    /\ queue = <<>>
    /\ push_queue_command_callable(c)

InitRetry == InitWith({Some(Token(MaxNow + 1))}, Configs) /\ applied = 0

NextRetry ==
    \/ \E c \in Buttons : PressOnce(c)
    \/ Connect
    \/ \E n \in {0, 1} : GetDevicesReturn(n)
    \/ GetBabyReturn(FALSE)
    \/ \E e \in BOOLEAN : SleepReturn(e)
    \/ HistoryRaises
    \/ \E h \in {<<>>} \cup {<<s>> : s \in WorkerSnapshots} : HistoryReturn(h)
    \/ PublishReturn
    \/ PublishRaises
    \/ StopReturn

SpecRetry == InitRetry /\ [][NextRetry]_vars

-----------------------------------------------------------------------------
(* SpecApply: one command at a time.  Buttons are pressed and activity is   *)
(* pushed only while the queue is empty and no command is being applied, so *)
(* every command and every snapshot is applied under every configuration.   *)

ApplyConfigs ==
    { [HOLD_ON_START |-> h, MAX_SESSION_LEVEL |-> m, FORCE_LOCK |-> f] :
        h \in BOOLEAN, m \in {None, Some(1)}, f \in BOOLEAN }

Idle == queue = <<>> /\ pc \notin {"history", "publish"}

InitApply == InitWith({Some(Token(MaxNow + 1))}, ApplyConfigs) /\ applied = MaxApplied

NextApply ==
    \/ \E c \in Buttons : Idle /\ push_queue_command_callable(c)
    \/ \E s \in Snapshots : Idle /\ listener_set_level_back_to_max(s)
    \/ \E s \in Snapshots : Idle /\ listener_set_lock_if_not_on(s)
    \/ \E s \in Snapshots : listener_update_lock_led(s)
    \/ Connect
    \/ \E n \in {0, 1} : GetDevicesReturn(n)
    \/ GetBabyReturn(FALSE)
    \/ \E e \in BOOLEAN : SleepReturn(e)
    \/ HistoryRaises
    \/ \E h \in {<<>>} \cup {<<s>> : s \in Snapshots} : HistoryReturn(h)
    \/ PublishReturn
    \/ PublishRaises
    \/ StopReturn

SpecApply == InitApply /\ [][NextApply]_vars

-----------------------------------------------------------------------------
(* SpecToggle: one press of the toggle button, where the only failure is a  *)
(* publish that raises after the start_snoo of the same application went    *)
(* through.  Every retry in this specification follows a published start.   *)

PublishRaisesAfterStart ==
    /\ Len(messages) = 1
    /\ messages[1] = publish_start
    /\ PublishRaises

InitToggle == InitWith({Some(Token(MaxNow + 1))}, ApplyConfigs) /\ applied = 0

NextToggle ==
    \/ PressOnce("toggle")
    \/ Connect
    \/ \E n \in {0, 1} : GetDevicesReturn(n)
    \/ GetBabyReturn(FALSE)
    \/ \E e \in BOOLEAN : SleepReturn(e)
    \/ \E s \in WorkerSnapshots : HistoryReturn(<<s>>)
    \/ PublishReturn
    \/ PublishRaisesAfterStart
    \/ StopReturn

SpecToggle == InitToggle /\ [][NextToggle]_vars

-----------------------------------------------------------------------------

(* SpecLive: SpecRetry with a fair worker.  The event loop resumes the       *)
(* worker whenever the call it awaits has finished (weak fairness of its    *)
(* steps); a device fetch, a history fetch or a publish that is tried again *)
(* and again succeeds in the end (strong fairness of the successful         *)
(* returns), which is what failing only finitely often amounts to.          *)

WorkerStep ==
    \/ Connect
    \/ \E n \in {0, 1} : GetDevicesReturn(n)
    \/ GetBabyReturn(FALSE)
    \/ \E e \in BOOLEAN : SleepReturn(e)
    \/ HistoryRaises
    \/ \E h \in {<<>>} \cup {<<s>> : s \in WorkerSnapshots} : HistoryReturn(h)
    \/ PublishReturn
    \/ PublishRaises
    \/ StopReturn

Fairness ==
    /\ WF_vars(WorkerStep)
    /\ SF_vars(GetDevicesReturn(1))
    /\ SF_vars(\E s \in WorkerSnapshots : HistoryReturn(<<s>>))
    /\ SF_vars(PublishReturn)

SpecLive == InitRetry /\ [][NextRetry]_vars /\ Fairness

-----------------------------------------------------------------------------

(* Properties *)

InFlight == pc \in {"history", "publish"}

Acquiring == pc \in {"connecting", "fetch_token", "get_devices", "get_baby"}

SessionStarted == pubnub # None /\ pubnub[1].started

\* C1: while a dequeued command is being applied (from its dequeue to the end
\* of its fetch and publishes) the worker dequeues no other command, keeps the
\* same command, and every message published is the next message of that
\* command, whatever the buttons and listeners do meanwhile.
C1_OneCommandAtATime ==
    [][InFlight =>
         /\ Len(queue') >= Len(queue)
         /\ SubSeq(queue', 1, Len(queue)) = queue
         /\ (pc' \in {"history", "publish"} => command' = command)
         /\ (messages' # messages =>
               /\ pc = "publish"
               /\ messages' = Append(messages,
                      dispatch(command, last_activity_status[1]).msgs[Len(messages) + 1]))
      ]_vars

\* a command is between two publishes while other commands wait in the queue
C1_Witness == pc = "publish" /\ Len(messages) = 1 /\ Len(queue) > 1

\* C2: when the publish of a dequeued command throws, that command is put back
\* on the queue exactly once, whatever was enqueued while it was in flight.
C2_RequeuedExactlyOnce ==
    [][(pc = "publish" /\ pc' = "stop") => queue' = Append(queue, command)]_vars

\* C3: once a command application has failed on a session, the worker is never
\* again in its loop on that session (no sleep, fetch or publish), the failed
\* session is stopped before a new one is acquired, and the next dequeue
\* happens only in the step that opens a new session after the stop.
C3_FailFastRecycle ==
    /\ [](failed => pc \notin {"sleep", "history", "publish"})
    /\ []((failed /\ Acquiring) => ~SessionStarted)
    /\ [][failed =>
            /\ messages' \in {messages, <<>>}
            /\ (Len(queue') < Len(queue) =>
                  /\ pc = "get_baby"
                  /\ ~SessionStarted
                  /\ pubnub'[1].started)
         ]_vars

\* the failed command waits in the queue, its session stopped, a new one on the way
C3_Witness == failed /\ pc = "get_baby" /\ Len(queue) > 0 /\ ~SessionStarted

\* C4: when the snapshot fetch of a dequeued command fails (no snapshot, or an
\* error), the worker re-enqueues that command and goes on to drain; no error
\* leaves the worker.
C4_FetchFailureRequeues ==
    [][(pc = "history" /\ pc' # "history" /\ last_activity_status' = None) =>
         /\ queue' = Append(queue, command)
         /\ listeners' = {}
         /\ exc' = "None"
      ]_vars

\* C5: the worker never reaches a terminated state, whatever errors occur.
C5_WorkerNeverTerminates == pc # "terminated"

\* C6: a NoDevicesException of session acquisition does not stop the worker:
\* it goes back to connecting.
C6_NoDevicesIsRetried == ~(exc = "NoDevicesException" /\ pc = "terminated")

\* C7: whenever the worker is outside the acquisition scope (acquiring the next
\* session, or terminated by an exception), the session it opened is stopped.
C7_SessionStoppedOnExit == (Acquiring \/ pc = "terminated") => ~SessionStarted

\* the scope was left by an exception raised in its body and the session is stopped
C7_Witness == pc = "terminated" /\ exc = "HistoryError" /\ pubnub # None /\ ~pubnub[1].started

\* C8: with no persisted token, session acquisition goes on to authenticate
\* with the credentials; it does not fail.
C8_AbsentTokenAuthenticates ==
    [][(pc = "connecting" /\ pc' # "connecting" /\ tokenFile = None) =>
          pc' = "fetch_token"]_vars

PastOrUnparsable(t) == t[1].expires_at = -1 \/ t[1].expires_at < now

\* C9: when the persisted token's expires_at is in the past or unparsable,
\* acquisition deletes the persisted token and authenticates with the
\* credentials before any device discovery; the session is then opened with
\* the fetched token, never with the token that was loaded.
C9_ExpiredTokenNeverReused ==
    /\ [][(pc = "connecting" /\ pc' # "connecting" /\ tokenFile # None
             /\ PastOrUnparsable(tokenFile)) =>
            /\ tokenFile' = None
            /\ force_auth'
            /\ pc' = "fetch_token"
         ]_vars
    /\ [][(pc = "fetch_token" /\ pc' = "get_devices") =>
            auth'.token[1].expires_at > now]_vars
    /\ []((force_auth /\ (SessionStarted \/ pc \in {"get_devices", "get_baby"})) =>
            /\ auth.token # None
            /\ auth.token # token
            /\ tokenFile = auth.token
            /\ (SessionStarted => pubnub[1].access_token = auth.token))

\* a session is open that was acquired after an expired token was discarded
C9_Witness == SessionStarted /\ force_auth /\ token # None /\ token[1].expires_at > 0

\* C10: an enqueue on a full queue surfaces no error to the callback that made it.
C10_OverflowIsSilent == callback_result # "QueueFull"

\* C11 (as claimed): a single enqueued command is applied at most twice in
\* total, the original attempt plus one retry, even when every attempt fails.
C11_AtMostOneRetry == applied <= 2

\* C11 (amended): every application of the single command after the first
\* follows a failed attempt and happens in the step that opens the next
\* session, the failed one stopped; the number of applications is not
\* limited to two.
C11_RetriedAfterEachFailure ==
    [][applied' > applied =>
          \/ applied = 0
          \/ (failed /\ pc = "get_baby" /\ ~SessionStarted)
      ]_vars

\* the third application of the one command is under way
C11_Witness == applied = 3 /\ pc = "history" /\ queue = <<>>

\* the command function awaited at snoo.py:322 returns without an exception
Completes == pc \in {"history", "publish"} /\ pc' = "sleep"

\* the command being applied, or the last one applied, is c on a snapshot
\* fetched at level l
Applies(c, l) ==
    /\ command = c
    /\ last_activity_status # None
    /\ last_activity_status[1].state = l

\* C12: applying toggle to a snapshot at level ONLINE publishes start_snoo
\* first; it publishes one more message, a go_to_state with hold on, exactly
\* when HOLD_ON_START is set; no go_to_state precedes the start; the LED ends
\* equal to HOLD_ON_START.
C12_ToggleFromOnline ==
    /\ [](Applies("toggle", "ONLINE") =>
            /\ Len(messages) <= (IF HOLD_ON_START THEN 2 ELSE 1)
            /\ (Len(messages) >= 1 => messages[1].command = "start_snoo")
            /\ (Len(messages) >= 2 =>
                  /\ messages[2].command = "go_to_state"
                  /\ messages[2].hold = "on"))
    /\ [][(Completes /\ Applies("toggle", "ONLINE")') =>
            /\ Len(messages') = (IF HOLD_ON_START THEN 2 ELSE 1)
            /\ led' = HOLD_ON_START
         ]_vars

C12_Witness ==
    /\ pc = "sleep"
    /\ Applies("toggle", "ONLINE")
    /\ Len(messages) = 2
    /\ led

\* C13: applying lock to a snapshot at an active level L publishes exactly one
\* message, go_to_state(L) with the hold opposite to the snapshot's, and sets
\* the LED to that opposite hold; applied again to the snapshot with the hold
\* it requested, lock requests the original hold back.
C13_LockFlipsHold ==
    /\ [][\A L \in SessionLevel :
            (is_active_level(L) /\ Completes /\ Applies("lock", L)') =>
               /\ messages' =
                    <<[command |-> "go_to_state", state |-> L,
                       hold |-> IF last_activity_status'[1].hold THEN "off" ELSE "on"]>>
               /\ led' = ~last_activity_status'[1].hold
         ]_vars
    /\ [](\A s \in Snapshots :
            is_active_level(s.state) =>
               LET r == [s EXCEPT !.hold = (lock(s).msgs[1].hold = "on")]
               IN  /\ r.hold = ~s.hold
                   /\ [r EXCEPT !.hold = (lock(r).msgs[1].hold = "on")] = s)

C13_Witness ==
    /\ pc = "sleep"
    /\ Applies("lock", "LEVEL2")
    /\ last_activity_status[1].hold
    /\ Len(messages) = 1
    /\ ~led

\* C14: applying lock to a snapshot whose level is not an active level
\* publishes nothing (the LED is then left as it was).
C14_LockInactiveIsNoOp ==
    \A L \in SessionLevel :
       (~is_active_level(L) /\ Applies("lock", L)) =>
           (messages = <<>> /\ pc # "publish")

\* C15: applying up_level (down_level) to a snapshot publishes one
\* go_to_state of the snapshot's up (down) transition with no hold when that
\* transition is an active level, and publishes nothing when it is not.
C15_GuardedLevelChange ==
    (command \in {"up_level", "down_level"} /\ last_activity_status # None) =>
        LET t == IF command = "up_level"
                 THEN last_activity_status[1].up_transition
                 ELSE last_activity_status[1].down_transition
        IN  IF is_active_level(t)
            THEN /\ Len(messages) <= 1
                 /\ (pc = "sleep" => Len(messages) = 1)
                 /\ (Len(messages) = 1 =>
                       messages[1] = [command |-> "go_to_state", state |-> t, hold |-> "-"])
            ELSE messages = <<>> /\ pc # "publish"

\* a button or listener callback ran to its end (or to its exception)
CallbackRan == callback_result' # callback_result

\* C16: callbacks only enqueue.  Every message is published by the worker, at
\* its publish await, while it applies the command it dequeued; every history
\* fetch is started by the worker; a step of a button callback or a listener
\* publishes nothing, fetches nothing and leaves the worker where it is.
C16_CallbacksOnlyEnqueue ==
    [][/\ (messages' # messages /\ messages' # <<>>) =>
             /\ pc = "publish"
             /\ command \in Commands
             /\ messages' = Append(messages, dispatch(command, last_activity_status[1]).msgs[Len(messages) + 1])
             /\ ~CallbackRan
       /\ (pc' = "history" /\ pc # "history") =>
             /\ pc \in {"get_baby", "sleep"}
             /\ ~CallbackRan
       /\ CallbackRan =>
             /\ messages' = messages
             /\ last_activity_status' = last_activity_status
             /\ pc' = pc
             /\ pubnub' = pubnub
             /\ (queue' = queue \/ \E c \in Commands : queue' = Append(queue, c))
      ]_vars

C16_Witness ==
    /\ pc = "publish"
    /\ Len(messages) = 1
    /\ callback_result = "QueueFull"
    /\ Len(queue) = QUEUE_MAXSIZE

\* C17: after listener_update_lock_led handles a pushed snapshot the LED is on
\* exactly when the snapshot's hold is true.
C17_LedMirrorsHold ==
    [][\A s \in Snapshots : listener_update_lock_led(s) => led' = s.hold]_vars

\* C18: whenever the worker leaves the loop of a session, the listeners
\* registered on that session are unregistered before the session is stopped:
\* none is registered while pubnub.stop() is awaited nor once it has returned.
C18_UnsubscribedBeforeStop ==
    (pc = "stop" \/ (pubnub # None /\ ~pubnub[1].started)) => listeners = {}

\* C19: a session acquisition leaves the device-list fetch only after exactly
\* retry_count attempts, whatever each attempt did: an attempt that raises
\* before the last one is followed by the next attempt.
C19_ThreeAttemptsAlways ==
    [][(pc = "get_devices" /\ pc' # "get_devices") => current_count' = retry_count]_vars

\* C20: in a session whose baby settings report weaning disabled, ordinal 0
\* maps to BASELINE and BASELINE has ordinal 0, whatever earlier sessions of
\* the process reported.
C20_RemapIsPerSession ==
    (SessionStarted /\ baby = Some(FALSE)) =>
        /\ MAP_INT_TO_LEVEL[0] = "BASELINE"
        /\ "BASELINE" \in DOMAIN MAP_LEVEL_TO_INT
        /\ MAP_LEVEL_TO_INT["BASELINE"] = 0

\* the command dequeued in this session was applied without an error
Succeeded == pc = "sleep" /\ command # "None"

\* C21: a command is consumed by its successful application.  The step that
\* completes an application leaves the queue as it is; the worker puts a
\* command on the queue only in a step that fails the application of that
\* command; and once the one command pressed has been applied successfully,
\* it is never on the queue nor applied again.
C21_ConsumedOnSuccess ==
    /\ [][Completes => queue' = queue]_vars
    /\ [][(pc' # pc /\ Len(queue') > Len(queue)) =>
            /\ InFlight
            /\ pc' = "stop"
            /\ failed'
            /\ queue' = Append(queue, command)
         ]_vars
    /\ [](Succeeded => [](queue = <<>> /\ ~InFlight))

C21_Witness == Succeeded /\ applied = 2 /\ queue = <<>> /\ Len(messages) = 1

\* C22: the worker's re-enqueue of a failed command never fails.  Whatever the
\* producers put on the queue while the command was in flight, the step that
\* re-enqueues it (empty history, or a publish that raised) leaves it at the
\* back of the queue and goes on to unsubscribe and stop the session, and the
\* worker never raises QueueFull.
C22_RequeueAlwaysSucceeds ==
    /\ [](exc # "QueueFull")
    /\ [][(InFlight /\ pc' = "stop" /\ exc' # "HistoryError") =>
            /\ queue' = Append(queue, command)
            /\ listeners' = {}
            /\ exc' = "None"
         ]_vars

\* C23: every command accepted into the queue is eventually applied
\* successfully, when the worker is scheduled fairly and fetches and publishes
\* fail only finitely often.
C23_AcceptedIsEventuallyApplied ==
    \A c \in Buttons : (queue = <<c>>) ~> (Succeeded /\ command = c)

\* C24: a corrective command never raises the device's state.  Whenever the
\* worker publishes for set_to_max or set_lock, the snapshot it has just
\* fetched is at an active level, and for set_to_max the ordinal of that level
\* is not below the configured maximum that is published.
C24_CorrectiveNeverRaises ==
    (/\ command \in {"set_to_max", "set_lock"}
     /\ last_activity_status # None
     /\ (pc = "publish" \/ messages # <<>>)) =>
        LET level == last_activity_status[1].state
            ord == IF level \in {"BASELINE", "WEANING_BASELINE"}
                   THEN 0
                   ELSE MAP_LEVEL_TO_INT[level]
        IN  /\ is_active_level(level)
            /\ (command = "set_to_max" => MAX_SESSION_LEVEL[1] <= ord)

\* C25: retrying a toggle never reverses it.  When the start_snoo of a toggle
\* was published and its go_to_state raised, no later application of the
\* re-enqueued toggle publishes go_to_state(ONLINE).
C25_RetryNeverReverses ==
    (applied >= 2 /\ command = "toggle") =>
        \A i \in 1..Len(messages) :
            ~(messages[i].command = "go_to_state" /\ messages[i].state = "ONLINE")

\* C26: the level-ordering tables are total where they are used.  No
\* listener fails on a level without an ordinal, whatever active level the
\* pushed snapshot carries, and whenever set_to_max is applied the configured
\* MAX_SESSION_LEVEL has a level.
C26_TablesTotalWhereUsed ==
    /\ callback_result # "KeyError"
    /\ (command = "set_to_max" /\ InFlight) =>
          (MAX_SESSION_LEVEL # None /\ MAX_SESSION_LEVEL[1] \in DOMAIN MAP_INT_TO_LEVEL)

====
